---- MODULE Spec2Model ----
(***************************************************************************)
(* A model of astrocut/cube_cut.py: the cutout pipeline of cube_cut        *)
(* (get_cube_wcs, get_cutout_limits, get_cutout, get_cutout_wcs,           *)
(* build_tpf / apply_header_inherit) and its functions taken one by one.   *)
(*                                                                         *)
(* Conventions.                                                            *)
(*  - Python indices are 0-based and are kept 0-based in array index       *)
(*    tuples; TLA+ sequences are 1-based, so cutout_lims[a, k] of the      *)
(*    source is cutout_lims[a + 1][k + 1] here (see Lim).                  *)
(*  - Floating point pixel positions and half-widths are fixed point, in   *)
(*    units of 1/4 pixel (see Fixed).  Every value the model feeds to the      *)
(*    code is a multiple of 1/4 of small magnitude, which binary floating  *)
(*    point adds, subtracts and rounds exactly.                            *)
(*  - A numpy array is a record [shape, at]: at maps each index tuple of   *)
(*    the shape to the cell's value.                                       *)
(*  - An exception is the name of its class in err; "none" is no           *)
(*    exception.                                                           *)
(***************************************************************************)
EXTENDS Integers, Sequences, FiniteSets, TLC

VARIABLES
    pc,             \* position in the operation running
    err,            \* the exception raised, "none" when none was
    warned,         \* cube_cut printed its "To many dimensions" message
    table_header,   \* cube[2].header: the cards of the cube's table header
    table_data,     \* cube[2].data: the rows of the cube's table
    coordinates,    \* the requested centre, by its projection on the cube
    cutout_size,    \* the cutout_size argument, then its array form
    heap,           \* the WCS objects that exist, by reference
    cubeWcs,        \* reference of the cube's WCS (0: not bound yet)
    cutout_wcs,     \* reference of the cutout's WCS (0: not bound yet)
    cutout_lims,    \* the limits get_cutout_limits returned
    img_cutout,     \* get_cutout's first result
    uncert_cutout,  \* get_cutout's second result
    aperture,       \* get_cutout's third result
    hdu_list,       \* the blocks apply_header_inherit works on
    hdu_list0       \* the blocks as they were before the first pass

vars == <<pc, err, warned, table_header, table_data, coordinates, cutout_size,
          heap, cubeWcs, cutout_wcs, cutout_lims, img_cutout, uncert_cutout,
          aperture, hdu_list, hdu_list0>>

---------------------------------------------------------------------------
(* Bounds of the model. *)

\* Length of the cube's first array axis (the one cutout_lims[1] slices).
CubeNX == 3
\* Length of the cube's second array axis (the one cutout_lims[0] slices).
CubeNY == 2
\* Number of time slices of the cube.
CubeNT == 2
\* How far outside the cube, in pixels, a drawn limit may lie.
LimSpan == 2
\* The largest size element drawn, in pixels or in angular units.
MaxSize == 3
\* How far from the reference point, in quarter pixels, a centre is drawn.
CoordSpan == 6
\* The largest number of blocks after the primary one in a drawn list.
MaxBlocks == 2

---------------------------------------------------------------------------
(* Arithmetic helpers. *)

Min(a, b) == IF a < b THEN a ELSE b

Max(a, b) == IF a > b THEN a ELSE b

\* A whole number of pixels in the fixed point representation.
Fixed(n) == 4 * n

---------------------------------------------------------------------------
(* numpy arrays. *)

\* The index tuples of a 2-D, 3-D, 4-D shape.
Idx2(shape) == (0 .. shape[1] - 1) \X (0 .. shape[2] - 1)

Idx3(shape) == (0 .. shape[1] - 1) \X (0 .. shape[2] - 1) \X (0 .. shape[3] - 1)

Idx4(shape) ==
    (0 .. shape[1] - 1) \X (0 .. shape[2] - 1) \X (0 .. shape[3] - 1)
        \X (0 .. shape[4] - 1)

\* np.nan, the fill value of the padded image and uncertainty cells.  The
\* cube's own cells are positive numbers, so the fill is told from them.
NaN == -1

\* The cube: cell (x, y, t, p) holds a number that names the cell.
CubeVal(x, y, t, p) == 1 + p + 2 * (t + CubeNT * (y + CubeNY * x))

transposed_cube ==
    [shape |-> <<CubeNX, CubeNY, CubeNT, 2>>,
     at |-> [i \in Idx4(<<CubeNX, CubeNY, CubeNT, 2>>) |->
                CubeVal(i[1], i[2], i[3], i[4])]]

\* Python's a:b on an axis of length n: the first index taken and the
\* number of indices taken.  A negative endpoint counts from the end.
SliceStart(a, n) == IF a < 0 THEN Max(a + n, 0) ELSE Min(a, n)

SliceLen(a, b, n) == Max(SliceStart(b, n) - SliceStart(a, n), 0)

\* cube[xmin:xmax, ymin:ymax, :, :]
SliceXY(cube, xmin, xmax, ymin, ymax) ==
    LET nx == cube.shape[1]
        ny == cube.shape[2]
        shape == <<SliceLen(xmin, xmax, nx), SliceLen(ymin, ymax, ny),
                   cube.shape[3], cube.shape[4]>>
    IN  [shape |-> shape,
         at |-> [i \in Idx4(shape) |->
                    cube.at[<<SliceStart(xmin, nx) + i[1],
                              SliceStart(ymin, ny) + i[2], i[3], i[4]>>]]]

\* cutout[:,:,:,plane].transpose((2,0,1))
PlaneTransposed(cutout, plane) ==
    LET shape == <<cutout.shape[3], cutout.shape[1], cutout.shape[2]>>
    IN  [shape |-> shape,
         at |-> [i \in Idx3(shape) |-> cutout.at[<<i[2], i[3], i[1], plane>>]]]

\* np.ones(shape), 2-D
NpOnes(shape) == [shape |-> shape, at |-> [i \in Idx2(shape) |-> 1]]

\* np.pad(arr, pad, 'constant', constant_values=fill) on a 3-D array: pad[k]
\* is <<before, after>> of axis k.
NpPad3(arr, pad, fill) ==
    LET shape == [k \in 1 .. 3 |-> pad[k][1] + arr.shape[k] + pad[k][2]]
        inside(i) == \A k \in 1 .. 3 :
                        /\ i[k] >= pad[k][1]
                        /\ i[k] < pad[k][1] + arr.shape[k]
    IN  [shape |-> shape,
         at |-> [i \in Idx3(shape) |->
                    IF inside(i)
                    THEN arr.at[<<i[1] - pad[1][1], i[2] - pad[2][1],
                                  i[3] - pad[3][1]>>]
                    ELSE fill]]

\* np.pad on a 2-D array.
NpPad2(arr, pad, fill) ==
    LET shape == [k \in 1 .. 2 |-> pad[k][1] + arr.shape[k] + pad[k][2]]
        inside(i) == \A k \in 1 .. 2 :
                        /\ i[k] >= pad[k][1]
                        /\ i[k] < pad[k][1] + arr.shape[k]
    IN  [shape |-> shape,
         at |-> [i \in Idx2(shape) |->
                    IF inside(i)
                    THEN arr.at[<<i[1] - pad[1][1], i[2] - pad[2][1]>>]
                    ELSE fill]]

\* The value of a name that holds no array (yet).
NoArray == [shape |-> <<>>, at |-> <<>>]

---------------------------------------------------------------------------
(* get_cutout *)

\* cutout_lims[axis, k] of the source.
Lim(lims, axis, k) == lims[axis + 1][k + 1]

\* Padding with the rows of the two spatial axes taken for one another.
PaddingAxesSwapped(xmin, xmax, ymin, ymax, xmax_cube, ymax_cube) ==
    << <<0, 0>>,
       <<IF ymin < 0 THEN -ymin ELSE 0,
         IF ymax > ymax_cube THEN ymax - ymax_cube ELSE 0>>,
       <<IF xmin < 0 THEN -xmin ELSE 0,
         IF xmax > xmax_cube THEN xmax - xmax_cube ELSE 0>> >>

\* The padding array of get_cutout: rows are the axes of the (time, x, y)
\* cutout, columns are <<before, after>>.
Padding(xmin, xmax, ymin, ymax, xmax_cube, ymax_cube) ==
    << <<0, 0>>,
       <<IF xmin < 0 THEN -xmin ELSE 0,
         IF xmax > xmax_cube THEN xmax - xmax_cube ELSE 0>>,
       <<IF ymin < 0 THEN -ymin ELSE 0,
         IF ymax > ymax_cube THEN ymax - ymax_cube ELSE 0>> >>

\* A limit after the adjustment of lines 97-108.
AdjustMin(lo) == IF lo < 0 THEN 0 ELSE lo

AdjustMax(hi, size) == IF hi > size THEN size ELSE hi

\* get_cutout(cutout_lims, transposed_cube): the three arrays returned, or
\* the exception raised.
GetCutout(lims, cube) ==
    LET xmin0 == Lim(lims, 1, 0)
        xmax0 == Lim(lims, 1, 1)
        ymin0 == Lim(lims, 0, 0)
        ymax0 == Lim(lims, 0, 1)
        xmax_cube == cube.shape[1]
        ymax_cube == cube.shape[2]
        padding == Padding(xmin0, xmax0, ymin0, ymax0, xmax_cube, ymax_cube)
        xmin == AdjustMin(xmin0)
        ymin == AdjustMin(ymin0)
        xmax == AdjustMax(xmax0, xmax_cube)
        ymax == AdjustMax(ymax0, ymax_cube)
        cutout == SliceXY(cube, xmin, xmax, ymin, ymax)
        img == PlaneTransposed(cutout, 0)
        uncert == PlaneTransposed(cutout, 1)
        any == \E k \in 1 .. 3 : \E s \in 1 .. 2 : padding[k][s] # 0
    IN  IF xmax - xmin < 0 \/ ymax - ymin < 0
        THEN \* np.ones refuses a negative dimension
             [raised |-> "ValueError", img_cutout |-> NoArray,
              uncert_cutout |-> NoArray, aperture |-> NoArray]
        ELSE IF any
        THEN [raised |-> "none",
              img_cutout |-> NpPad3(img, padding, NaN),
              uncert_cutout |-> NpPad3(uncert, padding, NaN),
              aperture |-> NpPad2(NpOnes(<<xmax - xmin, ymax - ymin>>),
                                  <<padding[2], padding[3]>>, 0)]
        ELSE [raised |-> "none", img_cutout |-> img, uncert_cutout |-> uncert,
              aperture |-> NpOnes(<<xmax - xmin, ymax - ymin>>)]

---------------------------------------------------------------------------
(* get_cutout_limits *)

\* np.round of a fixed point value to a whole number of pixels: to the
\* nearest integer, and a tie to the even one.
NpRound(q) ==
    LET fl == q \div 4
        r == q % 4
    IN  IF r < 2 THEN fl
        ELSE IF r > 2 THEN fl + 1
        ELSE IF fl % 2 = 0 THEN fl ELSE fl + 1

\* Lines 51-57: whether a size element takes one of the branches that bind
\* dim (a Quantity that is neither in pixels nor an angle takes none).
BindsDim(size) == size.kind \in {"int", "pix", "ang"}

\* Lines 51-57: the half-width of one size element along an axis whose
\* pixel scale is scale; an element that takes no branch leaves dim as it
\* was.
Dim(size, scale, dim) ==
    IF size.kind = "int" THEN (Fixed(size.val)) \div 2
    ELSE IF size.kind = "pix" THEN (Fixed(size.val)) \div 2
    ELSE IF size.kind = "ang" THEN (Fixed(size.val) \div scale) \div 2
    ELSE dim

\* Lines 59-60: the two limits of an axis.
AxisLims(center, dim) == <<NpRound(center - dim), NpRound(center + dim)>>

\* The loop of lines 49-60 from element number axis (0-based) on; st is
\* [lims, dim, bound, raised], bound telling whether dim holds a value.
\* center_pixel and the pixel scales have two entries.
RECURSIVE LimitsLoop(_, _, _, _, _)
LimitsLoop(axis, sizes, center_pixel, scales, st) ==
    IF axis >= Len(sizes) \/ st.raised # "none" THEN st
    ELSE LET size == sizes[axis + 1]
         IN  IF axis >= 2
             THEN \* proj_plane_pixel_scales(...)[axis] or center_pixel[axis]
                  [st EXCEPT !.raised = "IndexError"]
             ELSE IF ~(BindsDim(size) \/ st.bound)
             THEN [st EXCEPT !.raised = "UnboundLocalError"]
             ELSE LET dim == Dim(size, scales[axis + 1], st.dim)
                  IN  LimitsLoop(axis + 1, sizes, center_pixel, scales,
                          [lims |-> [st.lims EXCEPT ![axis + 1] =
                                        AxisLims(center_pixel[axis + 1], dim)],
                           dim |-> dim,
                           bound |-> TRUE,
                           raised |-> "none"])

\* get_cutout_limits, after center_coord.to_pixel: [lims, dim, bound, raised].
GetCutoutLimits(center_pixel, sizes, scales) ==
    LimitsLoop(0, sizes, center_pixel, scales,
               [lims |-> << <<0, 0>>, <<0, 0>> >>, dim |-> 0, bound |-> FALSE,
                raised |-> "none"])

---------------------------------------------------------------------------
(* WCS objects, get_cube_wcs, get_cutout_wcs *)

\* The keywords whose name contains NAXIS (line 27).
IsNaxisKeyword(header_val) == header_val \in {"NAXIS1", "NAXIS2"}

\* int(x) of a fixed point value: truncation toward zero, in pixels.
PyInt(q) == IF q >= 0 THEN q \div 4 ELSE -((-q) \div 4)

\* Lines 21-30: the header built from the TTYPEn cards of table_header, as
\* a function from keyword to value.  A card is [name, num, val]: the
\* keyword name with its number taken off, the number, the value.
RECURSIVE WcsHeader(_, _, _)
WcsHeader(cards, table_row, wcs_header) ==
    IF cards = <<>> THEN wcs_header
    ELSE LET card == Head(cards)
             colNum == card.num - 1
             entry == IF IsNaxisKeyword(card.val)
                      THEN PyInt(table_row[colNum + 1])
                      ELSE table_row[colNum + 1]
         IN  IF card.name # "TTYPE"
             THEN WcsHeader(Tail(cards), table_row, wcs_header)
             ELSE WcsHeader(Tail(cards), table_row,
                      [k \in DOMAIN wcs_header \cup {card.val} |->
                          IF k = card.val THEN entry ELSE wcs_header[k]])

\* A header value, or the default when the keyword is absent.
HeaderGet(h, k, default) == IF k \in DOMAIN h THEN h[k] ELSE default

\* wcs.WCS(wcs_header): the fields of the object the pipeline reads.  A
\* header without keywords gives the default object: no celestial axes,
\* reference pixel 0, unit scale, no axis lengths.
NewWcs(h) ==
    [crpix |-> <<HeaderGet(h, "CRPIX1", 0), HeaderGet(h, "CRPIX2", 0)>>,
     cdelt |-> <<HeaderGet(h, "CDELT1", 1), HeaderGet(h, "CDELT2", 1)>>,
     naxis |-> <<HeaderGet(h, "NAXIS1", 0), HeaderGet(h, "NAXIS2", 0)>>,
     celestial |-> {"CTYPE1", "CTYPE2"} \subseteq DOMAIN h]

\* get_cube_wcs(table_header, table_row)
GetCubeWcs(header, table_row) == NewWcs(WcsHeader(header, table_row, <<>>))

\* A copy that is the object itself: no new object.
NoCopy(h, ref) == [heap |-> h, ref |-> ref]

\* deepcopy(cube_wcs) on the heap h: a new object with the fields of the
\* one copied; [heap, ref].
DeepCopy(h, ref) ==
    LET new == Len(h) + 1
    IN  [heap |-> Append(h, h[ref]), ref |-> new]

\* The reference pixel shifted by the upper limits, cutout_lims[:,1].
ShiftedCrpixByUpper(crpix, lims) ==
    <<crpix[1] - Fixed(Lim(lims, 0, 1)), crpix[2] - Fixed(Lim(lims, 1, 1))>>

\* Line 72: crpix -= cutout_lims[:,0]
ShiftedCrpix(crpix, lims) ==
    <<crpix[1] - Fixed(Lim(lims, 0, 0)), crpix[2] - Fixed(Lim(lims, 1, 0))>>

\* Lines 74-75: the axis lengths of the cutout.
CutoutNaxis(lims) ==
    <<Lim(lims, 0, 1) - Lim(lims, 0, 0), Lim(lims, 1, 1) - Lim(lims, 1, 0)>>

\* get_cutout_wcs(cutout_lims, cube_wcs) on the heap h: [heap, ref].
GetCutoutWcs(h, lims, cube_wcs) ==
    LET c == DeepCopy(h, cube_wcs)
        old == c.heap[c.ref]
    IN  [heap |-> [c.heap EXCEPT ![c.ref] =
                     [old EXCEPT !.crpix = ShiftedCrpix(old.crpix, lims),
                                 !.naxis = CutoutNaxis(lims)]],
         ref |-> c.ref]

\* center_coord.to_pixel(cube_wcs): the position is held as its offset from
\* the reference point along the pixel axes, and the 0-based pixel of a
\* linear WCS is crpix - 1 + offset.  Without celestial axes the projection
\* is refused.
ToPixel(coord, w) ==
    <<w.crpix[1] - Fixed(1) + coord[1], w.crpix[2] - Fixed(1) + coord[2]>>

\* wcs.utils.proj_plane_pixel_scales(cube_wcs) with an identity PC matrix.
PixelScales(w) == w.cdelt

---------------------------------------------------------------------------
(* apply_header_inherit *)

reserved_kwds == {"COMMENT", "SIMPLE", "BITPIX", "EXTEND", "NEXTEND"}

\* A header is a sequence of cards [kw, val, com].
Keywords(header) == {header[i].kw : i \in 1 .. Len(header)}

\* header[kwd] and header.comments[kwd]: those of the first card of kwd.
FirstCard(header, kwd) ==
    header[CHOOSE i \in 1 .. Len(header) :
              /\ header[i].kw = kwd
              /\ \A j \in 1 .. i - 1 : header[j].kw # kwd]

\* hdu.header.get("INHERIT", False), taken as a condition.
Inherits(header) ==
    /\ "INHERIT" \in Keywords(header)
    /\ FirstCard(header, "INHERIT").val = "T"

\* The test of a keyword without its reserved part.
CopiesReserved(kwd, header) == kwd \notin Keywords(header)

\* Line 192: whether a keyword of the primary header is copied to a header.
Copies(kwd, header) == kwd \notin Keywords(header) /\ kwd \notin reserved_kwds

\* Lines 191-193 from card number i of the primary header on.
RECURSIVE InheritFrom(_, _, _)
InheritFrom(i, primary_header, header) ==
    IF i > Len(primary_header) THEN header
    ELSE LET kwd == primary_header[i].kw
         IN  IF Copies(kwd, header)
             THEN InheritFrom(i + 1, primary_header,
                      Append(header,
                             [kw |-> kwd,
                              val |-> FirstCard(primary_header, kwd).val,
                              com |-> FirstCard(primary_header, kwd).com]))
             ELSE InheritFrom(i + 1, primary_header, header)

\* apply_header_inherit(hdu_list): the headers of the list afterwards.
ApplyHeaderInherit(hdus) ==
    [n \in 1 .. Len(hdus) |->
        IF n > 1 /\ Inherits(hdus[n])
        THEN InheritFrom(1, hdus[1], hdus[n])
        ELSE hdus[n]]

---------------------------------------------------------------------------
(* The inputs drawn. *)

\* The limits of an axis of length n: min < max, each possibly outside.
AxisLimits(n) ==
    {l \in ((-LimSpan) .. (n + LimSpan)) \X ((-LimSpan) .. (n + LimSpan)) :
        l[1] < l[2]}

\* cutout_lims[0] runs along the cube's second array axis, cutout_lims[1]
\* along its first.
LimitPairs == AxisLimits(CubeNY) \X AxisLimits(CubeNX)

\* The limits a name holds before get_cutout_limits returned (np.zeros).
NoLims == << <<0, 0>>, <<0, 0>> >>

\* Table headers of a cube: the column bindings of the WCS keywords among
\* other cards, and a header without any binding.
BoundHeader ==
    << [name |-> "XTENSION", num |-> 0, val |-> "BINTABLE"],
       [name |-> "TFIELDS", num |-> 0, val |-> "9"],
       [name |-> "TTYPE", num |-> 1, val |-> "CTYPE1"],
       [name |-> "TFORM", num |-> 1, val |-> "8A"],
       [name |-> "TTYPE", num |-> 2, val |-> "CTYPE2"],
       [name |-> "TTYPE", num |-> 3, val |-> "CRPIX1"],
       [name |-> "TTYPE", num |-> 4, val |-> "CRPIX2"],
       [name |-> "TTYPE", num |-> 5, val |-> "CDELT1"],
       [name |-> "TTYPE", num |-> 6, val |-> "CDELT2"],
       [name |-> "TTYPE", num |-> 7, val |-> "NAXIS1"],
       [name |-> "TTYPE", num |-> 8, val |-> "NAXIS2"],
       [name |-> "TTYPE", num |-> 9, val |-> "TSTART"] >>

UnboundHeader ==
    << [name |-> "XTENSION", num |-> 0, val |-> "BINTABLE"],
       [name |-> "TFIELDS", num |-> 0, val |-> "9"],
       [name |-> "TFORM", num |-> 1, val |-> "8A"] >>

\* A table row: the WCS of one image of the cube.  Reference pixel in
\* quarter pixels, axis lengths as the table's floating point numbers.
TableRow(crpix1, crpix2, cdelt1, cdelt2) ==
    <<"RA---TAN", "DEC--TAN", crpix1, crpix2, cdelt1, cdelt2,
      Fixed(CubeNY), Fixed(CubeNX), 0>>

\* The cube files drawn: table header and table rows.
Cubes ==
    { [header |-> BoundHeader, data |-> <<TableRow(4, 4, 1, 1)>>],
      [header |-> BoundHeader,
       data |-> <<TableRow(4, 4, 1, 1), TableRow(9, 6, 2, 2)>>],
      [header |-> BoundHeader,
       data |-> <<TableRow(4, 4, 1, 1), TableRow(5, 4, 1, 2),
                  TableRow(9, 6, 2, 2)>>],
      [header |-> UnboundHeader, data |-> <<TableRow(4, 4, 1, 1)>>] }

\* Size elements: a plain number, a Quantity in pixels, an angle, a Quantity
\* of another physical type.
SizeElem(kind, val) == [kind |-> kind, val |-> val]

\* The cutout_size arguments drawn: scalars and lists of one to three.
SizeArgs ==
    {[scalar |-> TRUE, elems |-> <<SizeElem(k, n)>>] :
        k \in {"int", "ang"}, n \in 1 .. MaxSize}
    \cup {[scalar |-> TRUE, elems |-> <<SizeElem("pix", 2)>>],
          [scalar |-> TRUE, elems |-> <<SizeElem("other", 2)>>]}
    \cup {[scalar |-> FALSE, elems |-> <<SizeElem("int", a), SizeElem("int", b)>>] :
            a \in 1 .. MaxSize, b \in 1 .. MaxSize}
    \cup {[scalar |-> FALSE, elems |-> e] :
            e \in { <<SizeElem("int", 2)>>,
                    <<SizeElem("ang", 3), SizeElem("int", 2)>>,
                    <<SizeElem("int", 2), SizeElem("other", 1)>>,
                    <<SizeElem("other", 1), SizeElem("int", 2)>>,
                    <<SizeElem("int", 3), SizeElem("int", 2), SizeElem("int", 1)>>,
                    <<SizeElem("int", 2), SizeElem("int", 2), SizeElem("int", 2)>>,
                    <<SizeElem("ang", 2), SizeElem("ang", 2), SizeElem("ang", 2)>> }}

\* The centres drawn: offsets from the reference point, in quarter pixels.
Coords == ((-CoordSpan) .. CoordSpan) \X ((-CoordSpan) .. CoordSpan)

\* The sequence of the cards of pool whose numbers are in S, in order.
RECURSIVE Pick(_, _, _)
Pick(pool, S, i) ==
    IF i > Len(pool) THEN <<>>
    ELSE (IF i \in S THEN <<pool[i]>> ELSE <<>>) \o Pick(pool, S, i + 1)

Card(kw, val, com) == [kw |-> kw, val |-> val, com |-> com]

\* Primary headers drawn: the mandatory cards and any of the optional ones.
PrimaryOptional ==
    << Card("NEXTEND", "2", "number of extensions"),
       Card("COMMENT", "made by make_cube", ""),
       Card("TELESCOP", "TESS", "telescope"),
       Card("SECTOR", "1", "observing sector") >>

PrimaryHeaders ==
    { << Card("SIMPLE", "T", "conforms to FITS standard"),
         Card("BITPIX", "8", "array data type"),
         Card("NAXIS", "0", "number of array dimensions"),
         Card("EXTEND", "T", "") >> \o Pick(PrimaryOptional, S, 1) :
        S \in SUBSET (1 .. Len(PrimaryOptional)) }

\* Headers of the blocks after the primary one.
BlockOptional ==
    << Card("TELESCOP", "OTHER", "own telescope"),
       Card("COMMENT", "own comment", "") >>

BlockHeaders ==
    { << Card("XTENSION", "IMAGE", "extension"),
         Card("BITPIX", "-64", "own data type"),
         Card("NAXIS", "2", "own dimensions") >> \o inh \o Pick(BlockOptional, S, 1) :
        inh \in { <<>>, <<Card("INHERIT", "T", "")>>, <<Card("INHERIT", "F", "")>> },
        S \in SUBSET (1 .. Len(BlockOptional)) }

RECURSIVE SeqsOfLen(_, _)
SeqsOfLen(S, n) ==
    IF n = 0 THEN { <<>> }
    ELSE {Append(q, x) : q \in SeqsOfLen(S, n - 1), x \in S}

HduLists ==
    { <<p>> \o bs : p \in PrimaryHeaders,
                    bs \in UNION {SeqsOfLen(BlockHeaders, n) : n \in 1 .. MaxBlocks} }

\* WCS objects drawn for get_cutout_wcs taken alone.
WcsObjects ==
    { [crpix |-> <<c1, c2>>, cdelt |-> <<1, 1>>,
       naxis |-> <<CubeNY, CubeNX>>, celestial |-> TRUE] :
        c1 \in {4, 6}, c2 \in {4, 9} }

---------------------------------------------------------------------------
(* The state before anything ran, and what each operation leaves alone. *)

cubeVars == <<table_header, table_data>>

wcsVars == <<heap, cubeWcs, cutout_wcs>>

cutVars == <<img_cutout, uncert_cutout, aperture>>

hduVars == <<hdu_list, hdu_list0>>

NoCube == table_header = <<>> /\ table_data = <<>>

NoRequest == coordinates = <<0, 0>> /\ cutout_size = [scalar |-> FALSE, elems |-> <<>>]

NoWcs == heap = <<>> /\ cubeWcs = 0 /\ cutout_wcs = 0

NoCutout == img_cutout = NoArray /\ uncert_cutout = NoArray /\ aperture = NoArray

NoHdus == hdu_list = <<>> /\ hdu_list0 = <<>>

---------------------------------------------------------------------------
(* get_cutout taken alone: the limits are drawn, the cube is the fixed one. *)

InitCutout ==
    /\ pc = "get_cutout"
    /\ err = "none"
    /\ warned = FALSE
    /\ cutout_lims \in LimitPairs
    /\ NoCube /\ NoRequest /\ NoWcs /\ NoCutout /\ NoHdus

\* Lines 80-129.
CallGetCutout ==
    /\ pc = "get_cutout"
    /\ LET r == GetCutout(cutout_lims, transposed_cube)
       IN  /\ err' = r.raised
           /\ pc' = IF r.raised = "none" THEN "returned" ELSE "raised"
           /\ img_cutout' = r.img_cutout
           /\ uncert_cutout' = r.uncert_cutout
           /\ aperture' = r.aperture
    /\ UNCHANGED <<warned, cubeVars, coordinates, cutout_size, wcsVars,
                   cutout_lims, hduVars>>

NextCutout == CallGetCutout

SpecCutout == InitCutout /\ [][NextCutout]_vars

---------------------------------------------------------------------------
(* get_cutout_wcs taken alone: the limits and the cube's WCS are drawn. *)

InitWcs ==
    /\ pc = "get_cutout_wcs"
    /\ err = "none"
    /\ warned = FALSE
    /\ cutout_lims \in LimitPairs
    /\ \E w \in WcsObjects : heap = <<w>>
    /\ cubeWcs = 1
    /\ cutout_wcs = 0
    /\ NoCube /\ NoRequest /\ NoCutout /\ NoHdus

\* Lines 65-77.
CallGetCutoutWcs ==
    /\ pc = "get_cutout_wcs"
    /\ LET r == GetCutoutWcs(heap, cutout_lims, cubeWcs)
       IN  /\ heap' = r.heap
           /\ cutout_wcs' = r.ref
    /\ pc' = "returned"
    /\ UNCHANGED <<err, warned, cubeVars, coordinates, cutout_size, cubeWcs,
                   cutout_lims, cutVars, hduVars>>

NextWcs == CallGetCutoutWcs

SpecWcs == InitWcs /\ [][NextWcs]_vars

---------------------------------------------------------------------------
(* apply_header_inherit taken alone, applied once and then once more. *)

InitInherit ==
    /\ pc = "apply_header_inherit"
    /\ err = "none"
    /\ warned = FALSE
    /\ hdu_list \in HduLists
    /\ hdu_list0 = hdu_list
    /\ cutout_lims = NoLims
    /\ NoCube /\ NoRequest /\ NoWcs /\ NoCutout

\* Lines 182-193.
CallApplyHeaderInherit ==
    /\ pc \in {"apply_header_inherit", "applied"}
    /\ hdu_list' = ApplyHeaderInherit(hdu_list)
    /\ pc' = IF pc = "apply_header_inherit" THEN "applied" ELSE "applied_twice"
    /\ UNCHANGED <<err, warned, cubeVars, coordinates, cutout_size, wcsVars,
                   cutout_lims, cutVars, hdu_list0>>

NextInherit == CallApplyHeaderInherit

SpecInherit == InitInherit /\ [][NextInherit]_vars

---------------------------------------------------------------------------
(* build_tpf, as far as the headers of its blocks go. *)

\* header[kw] = (val, com): the card of kw is replaced, or a card is added.
SetCard(header, kw, val, com) ==
    IF kw \in Keywords(header)
    THEN [i \in 1 .. Len(header) |->
             IF header[i].kw = kw THEN Card(kw, val, com) ELSE header[i]]
    ELSE Append(header, Card(kw, val, com))

RECURSIVE SetCards(_, _)
SetCards(header, cards) ==
    IF cards = <<>> THEN header
    ELSE SetCards(SetCard(header, Head(cards).kw, Head(cards).val,
                          Head(cards).com), Tail(cards))

\* update_primary_header(primary_header, coordinates)
UpdatePrimaryHeader(primary_header, coord) ==
    SetCards(primary_header,
        << Card("RA_OBJ", ToString(coord[1]), "[deg] right ascension"),
           Card("DEC_OBJ", ToString(coord[2]), "[deg] declination"),
           Card("OBJECT", "", "string version of target id "),
           Card("TCID", "0", "unique tess target identifier"),
           Card("PXTABLE", "0", "pixel table id"),
           Card("PMRA", "0.0", "[mas/yr] RA proper motion"),
           Card("PMDEC", "0.0", "[mas/yr] Dec proper motion"),
           Card("PMTOTAL", "0.0", "[mas/yr] total proper motion"),
           Card("TESSMAG", "0.0", "[mag] TESS magnitude"),
           Card("TEFF", "0.0", "[K] Effective temperature"),
           Card("LOGG", "0.0", "[cm/s2] log10 surface gravity"),
           Card("MH", "0.0", "[log10([M/H])] metallicity"),
           Card("RADIUS", "0.0", "[solar radii] stellar radius"),
           Card("TICVER", "0", "TICVER") >>)

\* cutout_wcs.to_header(): the keywords of the fields the model keeps.
WcsToHeader(w) ==
    << Card("CRPIX1", ToString(w.crpix[1]), ""),
       Card("CRPIX2", ToString(w.crpix[2]), ""),
       Card("CDELT1", ToString(w.cdelt[1]), ""),
       Card("CDELT2", ToString(w.cdelt[2]), "") >>

\* The column keyword of a WCS keyword (wcs_keywords), for those kept.
ColumnKeyword(kw, col) ==
    (CASE kw = "CRPIX1" -> "1CRPX"
       [] kw = "CRPIX2" -> "2CRPX"
       [] kw = "CDELT1" -> "1CDLT"
       [] kw = "CDELT2" -> "2CDLT") \o ToString(col)

\* add_column_wcs(header, colnums, wcs_info)
AddColumnWcs(header, colnums, wcs_info) ==
    SetCards(header,
        [n \in 1 .. Len(colnums) * Len(wcs_info) |->
            LET col == colnums[((n - 1) \div Len(wcs_info)) + 1]
                c == wcs_info[((n - 1) % Len(wcs_info)) + 1]
            IN  Card(ColumnKeyword(c.kw, col), c.val, "")])

\* The primary header of the cube file.
CubePrimaryHeader ==
    << Card("SIMPLE", "T", "conforms to FITS standard"),
       Card("BITPIX", "8", "array data type"),
       Card("NAXIS", "0", "number of array dimensions"),
       Card("EXTEND", "T", "") >> \o PrimaryOptional

\* build_tpf: the headers of the HDU list it returns.
BuildTpf(coord, w) ==
    LET primary == UpdatePrimaryHeader(CubePrimaryHeader, coord)
        wcs_header == WcsToHeader(w)
        table0 ==
            SetCards(<< Card("XTENSION", "BINTABLE", "binary table extension"),
                        Card("BITPIX", "8", "array data type"),
                        Card("NAXIS", "2", "number of array dimensions"),
                        Card("TFIELDS", "12", "number of table fields") >>,
                     << Card("EXTNAME", "PIXELS", ""),
                        Card("INHERIT", "T", "") >>)
        table1 == AddColumnWcs(table0, <<4, 5, 6, 7, 8>>, wcs_header)
        table == SelectSeq(table1, LAMBDA c : c.kw \notin Keywords(wcs_header))
        aperture_header ==
            SetCards(<< Card("XTENSION", "IMAGE", "Image extension"),
                        Card("BITPIX", "-64", "array data type"),
                        Card("NAXIS", "2", "number of array dimensions") >>,
                     << Card("EXTNAME", "APERTURE", ""),
                        Card("INHERIT", "T", "") >>)
    IN  ApplyHeaderInherit(<<primary, table, aperture_header>>)

---------------------------------------------------------------------------
(* cube_cut: the pipeline, one step per call. *)

Init ==
    /\ pc = "open"
    /\ err = "none"
    /\ warned = FALSE
    /\ \E cube \in Cubes : table_header = cube.header /\ table_data = cube.data
    /\ coordinates \in Coords
    /\ cutout_size \in SizeArgs
    /\ cutout_lims = NoLims
    /\ NoWcs /\ NoCutout /\ NoHdus

\* Lines 317-321: the cube is opened and its WCS read from the middle row.
OpenCube ==
    /\ pc = "open"
    /\ LET wcsInd == Len(table_data) \div 2
       IN  heap' = <<GetCubeWcs(table_header, table_data[wcsInd + 1])>>
    /\ cubeWcs' = 1
    /\ pc' = "size"
    /\ UNCHANGED <<err, warned, cubeVars, coordinates, cutout_size, cutout_wcs,
                   cutout_lims, cutVars, hduVars>>

\* np.atleast_1d(cutout_size), then np.repeat(cutout_size, 2) of one element.
\* The scalar field goes on telling what the argument was.
SizeArray(size) ==
    [size EXCEPT !.elems = IF Len(size.elems) = 1
                           THEN <<size.elems[1], size.elems[1]>>
                           ELSE size.elems]

\* Lines 331-336.
MakeSizeArray ==
    /\ pc = "size"
    /\ cutout_size' = SizeArray(cutout_size)
    /\ warned' = (Len(SizeArray(cutout_size).elems) > 2)
    /\ pc' = "limits"
    /\ UNCHANGED <<err, cubeVars, coordinates, wcsVars, cutout_lims, cutVars,
                   hduVars>>

\* Line 339: get_cutout_limits(coordinates, cutout_size, cubeWcs).
CallGetCutoutLimits ==
    /\ pc = "limits"
    /\ LET w == heap[cubeWcs]
           r == GetCutoutLimits(ToPixel(coordinates, w), cutout_size.elems,
                                PixelScales(w))
       IN  IF ~w.celestial
           THEN \* to_pixel refuses a WCS without celestial axes
                /\ err' = "ValueError"
                /\ pc' = "raised"
                /\ UNCHANGED cutout_lims
           ELSE /\ err' = r.raised
                /\ pc' = IF r.raised = "none" THEN "cutout" ELSE "raised"
                /\ cutout_lims' = IF r.raised = "none" THEN r.lims ELSE cutout_lims
    /\ UNCHANGED <<warned, cubeVars, coordinates, cutout_size, wcsVars, cutVars,
                   hduVars>>

\* Line 346: get_cutout(cutout_lims, cube[1].data).
MakeCutout ==
    /\ pc = "cutout"
    /\ LET r == GetCutout(cutout_lims, transposed_cube)
       IN  /\ err' = r.raised
           /\ pc' = IF r.raised = "none" THEN "wcs" ELSE "raised"
           /\ img_cutout' = r.img_cutout
           /\ uncert_cutout' = r.uncert_cutout
           /\ aperture' = r.aperture
    /\ UNCHANGED <<warned, cubeVars, coordinates, cutout_size, wcsVars,
                   cutout_lims, hduVars>>

\* Line 349: get_cutout_wcs(cutout_lims, cubeWcs).
MakeCutoutWcs ==
    /\ pc = "wcs"
    /\ LET r == GetCutoutWcs(heap, cutout_lims, cubeWcs)
       IN  /\ heap' = r.heap
           /\ cutout_wcs' = r.ref
    /\ pc' = "build"
    /\ UNCHANGED <<err, warned, cubeVars, coordinates, cutout_size, cubeWcs,
                   cutout_lims, cutVars, hduVars>>

\* Line 352: build_tpf.
MakeTpf ==
    /\ pc = "build"
    /\ hdu_list' = BuildTpf(coordinates, heap[cutout_wcs])
    /\ pc' = "write"
    /\ UNCHANGED <<err, warned, cubeVars, coordinates, cutout_size, wcsVars,
                   cutout_lims, cutVars, hdu_list0>>

\* Lines 357-379: the file is written, the cube closed, the name returned.
WriteTpf ==
    /\ pc = "write"
    /\ pc' = "done"
    /\ UNCHANGED <<err, warned, cubeVars, coordinates, cutout_size, wcsVars,
                   cutout_lims, cutVars, hduVars>>

Next ==
    \/ OpenCube
    \/ MakeSizeArray
    \/ CallGetCutoutLimits
    \/ MakeCutout
    \/ MakeCutoutWcs
    \/ MakeTpf
    \/ WriteTpf

Spec == Init /\ [][Next]_vars

---------------------------------------------------------------------------
(* Claims about get_cutout (SpecCutout). *)

\* max - min of the limits of an axis.
Extent(lims, axis) == Lim(lims, axis, 1) - Lim(lims, axis, 0)

\* The limits of an axis leave at least one index of an axis of length n.
Overlaps(lims, axis, n) == Lim(lims, axis, 0) < n /\ Lim(lims, axis, 1) > 0

\* The limits meet the cube on both of its spatial axes.
OverlapsCube(lims) == Overlaps(lims, 1, CubeNX) /\ Overlaps(lims, 0, CubeNY)

\* The shape get_cutout's padding aims at: time, then the extent of the
\* limits that slice the cube's first axis, then that of the second.
ShapesAre(n1, n2) ==
    /\ img_cutout.shape = <<CubeNT, n1, n2>>
    /\ uncert_cutout.shape = <<CubeNT, n1, n2>>
    /\ aperture.shape = <<n1, n2>>

\* C1: for all limits [(row_min,row_max),(col_min,col_max)] with min < max,
\* get_cutout returns image and uncertainty cutouts of shape
\* (T, row_max-row_min, col_max-col_min) and an aperture mask of shape
\* (row_max-row_min, col_max-col_min).
C1_RequestedShape ==
    pc # "get_cutout" =>
        /\ pc = "returned"
        /\ ShapesAre(Extent(cutout_lims, 0), Extent(cutout_lims, 1))

\* C2: when the limits miss the cube on some axis, get_cutout does not fail
\* and returns cutouts of the requested extents that are all fill value
\* and an aperture mask that is all 0.
C2_AllFillWhenNoOverlap ==
    (pc # "get_cutout" /\ ~OverlapsCube(cutout_lims)) =>
        /\ pc = "returned"
        /\ ShapesAre(Extent(cutout_lims, 1), Extent(cutout_lims, 0))
        /\ \A i \in DOMAIN img_cutout.at : img_cutout.at[i] = NaN
        /\ \A i \in DOMAIN uncert_cutout.at : uncert_cutout.at[i] = NaN
        /\ \A i \in DOMAIN aperture.at : aperture.at[i] = 0

\* The cube index of cutout position (i, j) lies inside the cube.
InCube(x, y) == x >= 0 /\ x < CubeNX /\ y >= 0 /\ y < CubeNY

\* C3: for limits that overlap the cube, the cell at cutout position (i, j)
\* and time slice t is the cube's cell at (i + lower limit of the first
\* sliced axis, j + lower limit of the second) with aperture 1 when that
\* index is inside the cube, and the fill value with aperture 0 otherwise.
C3_CellsFromCube ==
    (pc # "get_cutout" /\ OverlapsCube(cutout_lims)) =>
        LET x0 == Lim(cutout_lims, 1, 0)
            y0 == Lim(cutout_lims, 0, 0)
        IN  /\ pc = "returned"
            /\ ShapesAre(Extent(cutout_lims, 1), Extent(cutout_lims, 0))
            /\ DOMAIN img_cutout.at = Idx3(img_cutout.shape)
            /\ DOMAIN uncert_cutout.at = Idx3(uncert_cutout.shape)
            /\ DOMAIN aperture.at = Idx2(aperture.shape)
            /\ \A c \in Idx3(img_cutout.shape) :
                  LET t == c[1]
                      x == c[2] + x0
                      y == c[3] + y0
                  IN  IF InCube(x, y)
                      THEN /\ img_cutout.at[c] = CubeVal(x, y, t, 0)
                           /\ uncert_cutout.at[c] = CubeVal(x, y, t, 1)
                           /\ aperture.at[<<c[2], c[3]>>] = 1
                      ELSE /\ img_cutout.at[c] = NaN
                           /\ uncert_cutout.at[c] = NaN
                           /\ aperture.at[<<c[2], c[3]>>] = 0

\* C3's case: limits that stick out below on one axis and above on the
\* other, cut and padded.
C3_Witness ==
    /\ pc = "returned"
    /\ OverlapsCube(cutout_lims)
    /\ Lim(cutout_lims, 1, 0) < 0
    /\ Lim(cutout_lims, 0, 1) > CubeNY
    /\ Extent(cutout_lims, 0) # Extent(cutout_lims, 1)

---------------------------------------------------------------------------
(* Claims about the cube_cut pipeline (Spec). *)

\* The positions at which get_cutout_limits has returned its limits.
HasLimits == pc \in {"cutout", "wcs", "build", "write", "done"}

\* The centre pixel and the pixel scales get_cutout_limits works with.
CenterPixel == ToPixel(coordinates, heap[cubeWcs])

\* C4: moving the centre by exactly one pixel along an axis, the size
\* unchanged, moves both returned limits of that axis by exactly 1.
C4_ShiftByOnePixel ==
    pc = "cutout" =>
        \A a \in 1 .. 2 :
            LET moved == [CenterPixel EXCEPT ![a] = @ + Fixed(1)]
                r == GetCutoutLimits(moved, cutout_size.elems,
                                     PixelScales(heap[cubeWcs]))
            IN  r.lims[a] = <<cutout_lims[a][1] + 1, cutout_lims[a][2] + 1>>

\* What cube_cut comes to with the size made of the first two elements:
\* the exception raised ("none" when the cutout is made) and the limits.
FirstTwoOutcome ==
    LET w == heap[cubeWcs]
        r == GetCutoutLimits(CenterPixel, SubSeq(cutout_size.elems, 1, 2),
                             PixelScales(w))
    IN  IF ~w.celestial THEN [raised |-> "ValueError", lims |-> NoLims]
        ELSE IF r.raised # "none" THEN [raised |-> r.raised, lims |-> NoLims]
        ELSE [raised |-> GetCutout(r.lims, transposed_cube).raised,
              lims |-> r.lims]

\* C5: with a cutout size of more than two elements, cube_cut warns, uses
\* the first two elements only, and goes on as it would for the size made
\* of those two.
C5_ExtraSizeElementsIgnored ==
    (Len(cutout_size.elems) > 2 /\ pc \notin {"open", "size"}) =>
        /\ warned
        /\ pc = "raised" => err = FirstTwoOutcome.raised
        /\ pc \notin {"limits", "raised"} => cutout_lims = FirstTwoOutcome.lims

\* C6: a single scalar size, with equal pixel scales on both axes, gives
\* limits of the same extent on both axes, and of extent n for a pixel
\* count n, for every centre.
C6_ScalarSizeSquare ==
    (/\ pc = "cutout"
     /\ cutout_size.scalar
     /\ PixelScales(heap[cubeWcs])[1] = PixelScales(heap[cubeWcs])[2]) =>
        /\ Extent(cutout_lims, 0) = Extent(cutout_lims, 1)
        /\ cutout_size.elems[1].kind \in {"int", "pix"} =>
              Extent(cutout_lims, 0) = cutout_size.elems[1].val

\* The WCS get_cube_wcs read, from the cube's table as it was given.
SourceWcs == GetCubeWcs(table_header, table_data[(Len(table_data) \div 2) + 1])

\* C7: get_cutout leaves the limits as get_cutout_limits returned them, and
\* get_cutout_wcs returns a new WCS whose reference pixel is the source's
\* minus the lower limit of each axis and whose axis lengths are the
\* extents max - min of the limits; the source WCS is left as it was.
C7_CutoutWcsFromOriginalLimits ==
    /\ (HasLimits \/ (pc = "raised" /\ cutout_lims # NoLims)) =>
          cutout_lims = GetCutoutLimits(CenterPixel, cutout_size.elems,
                                        PixelScales(heap[cubeWcs])).lims
    /\ pc \in {"build", "write", "done"} =>
          LET src == heap[cubeWcs]
              cut == heap[cutout_wcs]
          IN  /\ cutout_wcs # cubeWcs
              /\ \A a \in 0 .. 1 :
                    /\ cut.crpix[a + 1] =
                          src.crpix[a + 1] - Fixed(Lim(cutout_lims, a, 0))
                    /\ cut.naxis[a + 1] = Extent(cutout_lims, a)
              /\ src = SourceWcs

\* C7's case: the cutout WCS made from a negative lower limit on one axis
\* and a lower limit past the cube's last index on the other.
C7_Witness ==
    /\ pc = "done"
    /\ Lim(cutout_lims, 1, 0) < 0
    /\ Lim(cutout_lims, 0, 0) >= CubeNY
    /\ Extent(cutout_lims, 0) > 0
    /\ heap[cutout_wcs].crpix # heap[cubeWcs].crpix

\* The table header binds no column to a keyword.
NoBindings == \A i \in 1 .. Len(table_header) : table_header[i].name # "TTYPE"

\* C9: with a table header without TTYPEn bindings the extraction of the
\* WCS fails with an error, rather than returning a WCS object.
C9_NoBindingsFails ==
    (NoBindings /\ pc # "open") => (pc = "raised" /\ cubeWcs = 0)

---------------------------------------------------------------------------
(* Claims about get_cutout_wcs (SpecWcs). *)

ZeroShift == Lim(cutout_lims, 0, 0) = 0 /\ Lim(cutout_lims, 1, 0) = 0

\* C8 as stated: with lower limits 0 on both axes get_cutout_wcs returns a
\* WCS identical to the input, reference pixel and axis lengths unchanged.
C8_ZeroShiftIdentity ==
    (pc = "returned" /\ ZeroShift) =>
        /\ heap[cutout_wcs].crpix = heap[cubeWcs].crpix
        /\ heap[cutout_wcs].naxis = heap[cubeWcs].naxis

\* C8 as amended: with lower limits 0 on both axes get_cutout_wcs returns a
\* WCS whose reference pixel is the input's and whose axis lengths are the
\* upper limits; it is identical to the input exactly when the upper
\* limits are the input's axis lengths.
C8_ZeroShiftKeepsCrpix ==
    (pc = "returned" /\ ZeroShift) =>
        LET src == heap[cubeWcs]
            cut == heap[cutout_wcs]
        IN  /\ cut.crpix = src.crpix
            /\ cut.naxis = <<Lim(cutout_lims, 0, 1), Lim(cutout_lims, 1, 1)>>
            /\ (cut = src) <=>
                  (src.naxis = <<Lim(cutout_lims, 0, 1), Lim(cutout_lims, 1, 1)>>)

\* C8's case: zero shift with upper limits that are not the input's axis
\* lengths.
C8_Witness ==
    /\ pc = "returned"
    /\ ZeroShift
    /\ heap[cutout_wcs].naxis # heap[cubeWcs].naxis
    /\ heap[cutout_wcs].crpix = heap[cubeWcs].crpix

---------------------------------------------------------------------------
(* Claims about apply_header_inherit (SpecInherit). *)

\* The cards of a header from number i on.
CardsFrom(header, i) == SubSeq(header, i, Len(header))

\* The primary keywords a block that inherits is to receive.
Inherited(primary, block) == (Keywords(primary) \ reserved_kwds) \ Keywords(block)

\* C10: after the pass every block after the first with a true INHERIT flag
\* holds every non-reserved keyword of the primary block, with the
\* primary's value and comment where it lacked the keyword and its own card
\* where it had it; no reserved keyword is copied; the primary block and
\* the blocks without a true INHERIT flag are unchanged; a second pass
\* changes nothing.
C10_InheritPass ==
    pc \in {"applied", "applied_twice"} =>
        /\ Len(hdu_list) = Len(hdu_list0)
        /\ hdu_list[1] = hdu_list0[1]
        /\ \A n \in 2 .. Len(hdu_list0) :
              LET old == hdu_list0[n]
                  new == hdu_list[n]
                  added == CardsFrom(new, Len(old) + 1)
              IN  IF ~Inherits(old) THEN new = old
                  ELSE /\ Len(new) >= Len(old)
                       /\ SubSeq(new, 1, Len(old)) = old
                       /\ Keywords(added) = Inherited(hdu_list0[1], old)
                       /\ Len(added) = Cardinality(Inherited(hdu_list0[1], old))
                       /\ \A i \in 1 .. Len(added) :
                             LET from == FirstCard(hdu_list0[1], added[i].kw)
                             IN  added[i].val = from.val /\ added[i].com = from.com
                       /\ (Keywords(hdu_list0[1]) \ reserved_kwds) \subseteq Keywords(new)
        /\ pc = "applied_twice" => hdu_list = ApplyHeaderInherit(hdu_list0)

\* C10's case: a list passed twice in which a block with a true INHERIT
\* flag received a card and kept its own TELESCOP, next to a block that
\* does not inherit.
C10_Witness ==
    /\ pc = "applied_twice"
    /\ "TELESCOP" \in Keywords(hdu_list0[1])
    /\ "COMMENT" \in Keywords(hdu_list0[1])
    /\ \E n \in 2 .. Len(hdu_list0) :
          /\ Inherits(hdu_list0[n])
          /\ "TELESCOP" \in Keywords(hdu_list0[n])
          /\ Len(hdu_list[n]) > Len(hdu_list0[n])
    /\ \E n \in 2 .. Len(hdu_list0) : ~Inherits(hdu_list0[n])

====
